---- MODULE Spec2Model ----
(***************************************************************************)
(* Model of the open_clip MaMMUT model class (open_clip/mammut_model.py)   *)
(* and of the profiling command line (open_clip_train/profiler_simple.py). *)
(*                                                                         *)
(* SpecProfiler is one run of main(); SpecMaMMUT is the life of one MaMMUT *)
(* object: construction, then any sequence of its public calls.            *)
(* Tensors are symbolic terms (records tagged by the operation that made   *)
(* them); a batch holds one sample, so a text is one token sequence.       *)
(***************************************************************************)
EXTENDS Integers, Sequences, FiniteSets, TLC

VARIABLES
    \* ---- profiler_simple.main ----
    args,                \* parsed command line: model, results_file, profiler
    fvcore,              \* TRUE iff "import fvcore" succeeded
    pc,                  \* position of main(): parse, loop, report, done, IndexError
    parsed_model,        \* list of model names
    idx,                 \* 1-based position of the for loop in parsed_model
    results,             \* rows of the successfully profiled models
    models_with_errors,  \* names whose profile_model call raised
    calls,               \* history of the profile_model calls: name, raised
    csv,                 \* the results file: Absent, or header and rows
    stdout_errors,       \* the 'Models with errors:' line: NotPrinted or a list
    \* ---- MaMMUT object ----
    obj,                 \* new, ready, or AttributeError (raised by __init__)
    output_dim,          \* output_dim the decoder tower was built with
    use_contrastive,     \* self.use_contrastive
    requires_grad,       \* requires_grad of the contrastive-only parameters
    call,                \* the last public call and its arguments
    out,                 \* what the last call returned
    visual_calls,        \* images the vision tower was run on in the last call
    decoder_calls        \* decoder invocations of the last call, in order

profilerVars == <<args, fvcore, pc, parsed_model, idx, results,
                  models_with_errors, calls, csv, stdout_errors>>
mammutVars == <<obj, output_dim, use_contrastive, requires_grad, call, out,
                visual_calls, decoder_calls>>
vars == <<profilerVars, mammutVars>>

\* ------------------------------------------------------------------------
\* Bounds
\* ------------------------------------------------------------------------
MaxLen == 3      \* longest --model argument, in characters
MaxCost == 2     \* largest FLOP / MAC estimate a profiler returns
MaxParams == 2   \* largest parameter count of a model
MaxText == 2     \* longest text, in tokens
MaxToken == 2    \* largest token id

\* ------------------------------------------------------------------------
\* profiler_simple.py
\* ------------------------------------------------------------------------
Alphabet == {"a", "l", ","}

RECURSIVE StringsUpTo(_)
StringsUpTo(n) ==
    IF n = 0 THEN {<<>>}
    ELSE LET shorter == StringsUpTo(n - 1)
         IN  shorter \cup {Append(s, c) : s \in {t \in shorter : Len(t) = n - 1},
                                          c \in Alphabet}

\* ord() of the characters of the alphabet
Ord(c) == CASE c = "," -> 44 [] c = "a" -> 97 [] c = "l" -> 108

\* str.split(sep): the pieces between the separators, '' giving ['']
RECURSIVE SplitFrom(_, _, _)
SplitFrom(s, sep, piece) ==
    IF s = <<>> THEN <<piece>>
    ELSE IF Head(s) = sep THEN <<piece>> \o SplitFrom(Tail(s), sep, <<>>)
    ELSE SplitFrom(Tail(s), sep, Append(piece, Head(s)))

Split(s, sep) == SplitFrom(s, sep, <<>>)

\* open_clip.list_models(): the names of the model registry
list_models == << <<"a">>, <<"l">> >>

\* create_model (line 69) raises for a name that has no model config
Registry == {list_models[i] : i \in DOMAIN list_models}

ImageSize == 224

Profilers == {"torch", "fvcore"}

\* What one pass of the retry loop of profile_model can do: raise, or measure.
Raise == [raised |-> TRUE, mparams |-> 0, cost |-> 0]
Measured(p, c) == [raised |-> FALSE, mparams |-> p, cost |-> c]
Passes == {Raise} \cup {Measured(p, c) : p \in 1..MaxParams, c \in 1..MaxCost}

\* The row profile_model builds from the measurements of a pass. The three
\* parameter counts are one measurement of the same model, as are the two
\* fvcore totals.
Row(model_name, profiler, m) ==
    IF profiler = "fvcore"
    THEN [model |-> model_name, image_size |-> ImageSize,
          mparams |-> m.mparams, image_mparams |-> m.mparams,
          text_mparams |-> m.mparams, gmacs |-> m.cost, macts |-> m.cost]
    ELSE [model |-> model_name, image_size |-> ImageSize,
          mparams |-> m.mparams, image_mparams |-> m.mparams,
          text_mparams |-> m.mparams, gflops |-> m.cost]

\* profile_model: the assertions, create_model, then two passes of the retry
\* loop (retries = 2, no break), the second overwriting the first. Raise
\* stands for the exception, anything else is the returned row.
profile_model(model_name, profiler, pass1, pass2) ==
    IF profiler \notin Profilers THEN Raise
    ELSE IF profiler = "fvcore" /\ ~fvcore THEN Raise
    ELSE IF model_name \notin Registry THEN Raise
    ELSE IF pass1.raised THEN Raise
    ELSE IF pass2.raised THEN Raise
    ELSE Row(model_name, profiler, pass2)

\* dict.keys() of a row, in insertion order
Keys(row) ==
    IF "gmacs" \in DOMAIN row
    THEN <<"model", "image_size", "mparams", "image_mparams", "text_mparams",
           "gmacs", "macts">>
    ELSE <<"model", "image_size", "mparams", "image_mparams", "text_mparams",
           "gflops">>

\* str < str
RECURSIVE StrLess(_, _)
StrLess(s, t) ==
    IF t = <<>> THEN FALSE
    ELSE IF s = <<>> THEN TRUE
    ELSE IF Head(s) # Head(t) THEN Ord(Head(s)) < Ord(Head(t))
    ELSE StrLess(Tail(s), Tail(t))

\* row a sorts strictly before row b under by=[key, 'mparams', 'model']
RowLess(a, b, key) ==
    \/ a[key] < b[key]
    \/ a[key] = b[key] /\ a.mparams < b.mparams
    \/ a[key] = b[key] /\ a.mparams = b.mparams /\ StrLess(a.model, b.model)

RECURSIVE Insert(_, _, _)
Insert(sorted, row, key) ==
    IF sorted = <<>> THEN <<row>>
    ELSE IF RowLess(row, Head(sorted), key) THEN <<row>> \o sorted
    ELSE <<Head(sorted)>> \o Insert(Tail(sorted), row, key)

\* DataFrame.sort_values(by=[key, 'mparams', 'model'])
RECURSIVE sort_values(_, _)
sort_values(rows, key) ==
    IF rows = <<>> THEN <<>>
    ELSE Insert(sort_values(SubSeq(rows, 1, Len(rows) - 1), key),
                rows[Len(rows)], key)

Absent == [written |-> FALSE, header |-> <<>>, rows |-> <<>>]
NotPrinted == [printed |-> FALSE, models |-> <<>>]

InitProfiler ==
    /\ args \in [model : StringsUpTo(MaxLen),
                 results_file : {"", "results.csv"},
                 profiler : Profilers]
    /\ fvcore \in BOOLEAN
    /\ pc = "parse"
    /\ parsed_model = <<>>
    /\ idx = 1
    /\ results = <<>>
    /\ models_with_errors = <<>>
    /\ calls = <<>>
    /\ csv = Absent
    /\ stdout_errors = NotPrinted

\* main, lines 117-126
Parse ==
    /\ pc = "parse"
    /\ parsed_model' = IF args.model = <<"a", "l", "l">> THEN list_models
                       ELSE Split(args.model, ",")
    /\ idx' = 1
    /\ results' = <<>>
    /\ models_with_errors' = <<>>
    /\ pc' = "loop"
    /\ UNCHANGED <<args, fvcore, calls, csv, stdout_errors, mammutVars>>

\* ProfileNext without the try/except: the exception leaves main.
ProfileNext_NoCatch ==
    /\ pc = "loop"
    /\ idx <= Len(parsed_model)
    /\ \E pass1 \in Passes, pass2 \in Passes :
         LET m == parsed_model[idx]
             row == profile_model(m, args.profiler, pass1, pass2)
         IN  /\ calls' = Append(calls, [model |-> m, raised |-> row = Raise])
             /\ IF row = Raise
                THEN /\ pc' = "Exception"
                     /\ UNCHANGED <<results, models_with_errors, idx>>
                ELSE /\ results' = Append(results, row)
                     /\ idx' = idx + 1
                     /\ UNCHANGED <<models_with_errors, pc>>
    /\ UNCHANGED <<args, fvcore, parsed_model, csv, stdout_errors, mammutVars>>

\* main, lines 127-137: one iteration of the for loop
ProfileNext ==
    /\ pc = "loop"
    /\ idx <= Len(parsed_model)
    /\ \E pass1 \in Passes, pass2 \in Passes :
         LET m == parsed_model[idx]
             row == profile_model(m, args.profiler, pass1, pass2)
         IN  /\ calls' = Append(calls, [model |-> m, raised |-> row = Raise])
             /\ IF row = Raise
                THEN /\ models_with_errors' = Append(models_with_errors, m)
                     /\ UNCHANGED results
                ELSE /\ results' = Append(results, row)
                     /\ UNCHANGED models_with_errors
    /\ idx' = idx + 1
    /\ UNCHANGED <<args, fvcore, pc, parsed_model, csv, stdout_errors, mammutVars>>

\* the for loop is exhausted
LoopEnd ==
    /\ pc = "loop"
    /\ idx > Len(parsed_model)
    /\ pc' = "report"
    /\ UNCHANGED <<args, fvcore, parsed_model, idx, results, models_with_errors,
                   calls, csv, stdout_errors, mammutVars>>

\* main, lines 139-153: results[0] raises IndexError on an empty list
Report ==
    /\ pc = "report"
    /\ IF results = <<>>
       THEN /\ pc' = "IndexError"
            /\ UNCHANGED <<csv, stdout_errors>>
       ELSE LET columns == Keys(results[1])
                key == IF \E i \in DOMAIN columns : columns[i] = "gmacs"
                       THEN "gmacs" ELSE "gflops"
                df == sort_values(results, key)
            IN  /\ csv' = IF args.results_file # ""
                          THEN [written |-> TRUE, header |-> columns, rows |-> df]
                          ELSE csv
                /\ stdout_errors' = IF models_with_errors # <<>>
                                    THEN [printed |-> TRUE,
                                          models |-> models_with_errors]
                                    ELSE stdout_errors
                /\ pc' = "done"
    /\ UNCHANGED <<args, fvcore, parsed_model, idx, results, models_with_errors,
                   calls, mammutVars>>

NextProfiler == Parse \/ ProfileNext \/ LoopEnd \/ Report

\* ------------------------------------------------------------------------
\* mammut_model.py
\* ------------------------------------------------------------------------
\* Values are terms: None, the arguments a caller can pass, and the results
\* of the framework's operations applied to them.
None == [op |-> "None"]
Str(s) == [op |-> "str", s |-> s]
Tokens(s) == [op |-> "text", tokens |-> s]
Image == [op |-> "image"]
GivenLatent == [op |-> "image_latent"]
GivenEmbs == [op |-> "image_embs"]
Normalize(x) == [op |-> "F.normalize", arg |-> x]
Mean1(x) == [op |-> "mean(1)", arg |-> x]
MatMul_map_viz2txt_kv(x) == [op |-> "@ map_viz2txt_kv", arg |-> x]
ExpLogitScale == [op |-> "logit_scale.exp()"]

Texts == {Tokens(s) : s \in UNION {[1..n -> 1..MaxToken] : n \in 0..MaxText}}

\* text[:, 1:] and text[:, :-1]
DropFirst(text) ==
    Tokens(SubSeq(text.tokens, 2, Len(text.tokens)))
DropLast(text) ==
    Tokens(SubSeq(text.tokens, 1, Len(text.tokens) - 1))

\* dict[k] = v
Put(d, k, v) == [x \in DOMAIN d \cup {k} |-> IF x = k THEN v ELSE d[x]]

\* self.visual(image): the vision tower, returning latent and embeddings
visual(image) ==
    [image_latent |-> [op |-> "visual.latent", image |-> image],
     image_embs |-> [op |-> "visual.embs", image |-> image]]

\* self.text(text_embs, image_embs): the multimodal decoder tower
text_tower(text, image_embs) ==
    [token_logits |-> [op |-> "text.token_logits", text_embs |-> text,
                       image_embs |-> image_embs],
     text_latent |-> [op |-> "text.text_latent", text_embs |-> text,
                      image_embs |-> image_embs]]

\* one record of the decoder invocation log
DecoderCall(text, image_embs) == [text_embs |-> text, image_embs |-> image_embs]

_encode_text(text, image_embs) == text_tower(text, image_embs)

\* encode_text normalizing whatever the normalize flag says
encode_text_AlwaysNormalize(text, image_embs, normalize, output_logits) ==
    LET r == _encode_text(text, image_embs)
    IN  IF output_logits THEN r.token_logits
        ELSE Normalize(Mean1(r.text_latent))

encode_text(text, image_embs, normalize, output_logits) ==
    LET r == _encode_text(text, image_embs)
    IN  IF output_logits THEN r.token_logits
        ELSE LET text_latent == Mean1(r.text_latent)
             IN  IF normalize THEN Normalize(text_latent) ELSE text_latent

_encode_image(image, normalize) ==
    LET r == visual(image)
    IN  [image_latent |-> IF normalize THEN Normalize(r.image_latent)
                          ELSE r.image_latent,
         image_embs |-> r.image_embs]

\* _forward that never drops the last token
_forward_KeepLast(st, text, image_embs, contrastive, is_training) ==
    IF contrastive
    THEN [out |-> Put(st.out, "text_features", encode_text(text, None, TRUE, FALSE)),
          decoder_calls |-> Append(st.decoder_calls, DecoderCall(text, None))]
    ELSE LET embs == IF image_embs # None THEN MatMul_map_viz2txt_kv(image_embs)
                     ELSE image_embs
         IN  [out |-> Put(Put(st.out, "labels", DropFirst(text)), "logits",
                          encode_text(text, embs, TRUE, TRUE)),
              decoder_calls |-> Append(st.decoder_calls, DecoderCall(text, embs))]

\* _forward on st = [out, decoder_calls]; every encode_text is one decoder
\* invocation, appended to the log.
_forward(st, text, image_embs, contrastive, is_training) ==
    IF contrastive
    THEN [out |-> Put(st.out, "text_features", encode_text(text, None, TRUE, FALSE)),
          decoder_calls |-> Append(st.decoder_calls, DecoderCall(text, None))]
    ELSE LET embs == IF image_embs # None THEN MatMul_map_viz2txt_kv(image_embs)
                     ELSE image_embs
             labels == DropFirst(text)
             text2 == IF is_training THEN DropLast(text) ELSE text
         IN  [out |-> Put(Put(st.out, "labels", labels), "logits",
                          encode_text(text2, embs, TRUE, TRUE)),
              decoder_calls |-> Append(st.decoder_calls, DecoderCall(text2, embs))]

\* forward running the contrastive pass whenever use_contrastive is set,
\* training or not
forward_ContrastiveInEval(self_use_contrastive, image, text, image_latent, image_embs, is_training) ==
    LET encode == (image_latent = None \/ image_embs = None) /\ image # None
        enc == _encode_image(image, TRUE)
        latent == IF encode THEN enc.image_latent ELSE image_latent
        embs == IF encode THEN enc.image_embs ELSE image_embs
        vcalls == IF encode THEN <<image>> ELSE <<>>
        out0 == [k \in {"logit_scale", "image_features"} |->
                    IF k = "logit_scale" THEN ExpLogitScale ELSE latent]
        st0 == [out |-> out0, decoder_calls |-> <<>>]
    IN  IF text = None
        THEN [out |-> out0, visual_calls |-> vcalls, decoder_calls |-> <<>>]
        ELSE LET st1 == IF self_use_contrastive
                        THEN _forward(st0, text, None, TRUE, TRUE)
                        ELSE [st0 EXCEPT !.out = Put(st0.out, "text_features", None)]
                 st2 == _forward(st1, text, embs, FALSE, is_training)
             IN  [out |-> st2.out, visual_calls |-> vcalls,
                  decoder_calls |-> st2.decoder_calls]

\* forward re-encoding the image only when neither encoding is supplied
forward_EncodeIfBothMissing(self_use_contrastive, image, text, image_latent, image_embs, is_training) ==
    LET encode == (image_latent = None /\ image_embs = None) /\ image # None
        enc == _encode_image(image, TRUE)
        latent == IF encode THEN enc.image_latent ELSE image_latent
        embs == IF encode THEN enc.image_embs ELSE image_embs
        vcalls == IF encode THEN <<image>> ELSE <<>>
        out0 == [k \in {"logit_scale", "image_features"} |->
                    IF k = "logit_scale" THEN ExpLogitScale ELSE latent]
        st0 == [out |-> out0, decoder_calls |-> <<>>]
    IN  IF text = None
        THEN [out |-> out0, visual_calls |-> vcalls, decoder_calls |-> <<>>]
        ELSE LET st1 == IF is_training /\ self_use_contrastive
                        THEN _forward(st0, text, None, TRUE, TRUE)
                        ELSE [st0 EXCEPT !.out = Put(st0.out, "text_features", None)]
                 st2 == _forward(st1, text, embs, FALSE, is_training)
             IN  [out |-> st2.out, visual_calls |-> vcalls,
                  decoder_calls |-> st2.decoder_calls]

\* forward: the returned dict and the tower invocations it made
forward(self_use_contrastive, image, text, image_latent, image_embs, is_training) ==
    LET encode == (image_latent = None \/ image_embs = None) /\ image # None
        enc == _encode_image(image, TRUE)
        latent == IF encode THEN enc.image_latent ELSE image_latent
        embs == IF encode THEN enc.image_embs ELSE image_embs
        vcalls == IF encode THEN <<image>> ELSE <<>>
        out0 == [k \in {"logit_scale", "image_features"} |->
                    IF k = "logit_scale" THEN ExpLogitScale ELSE latent]
        st0 == [out |-> out0, decoder_calls |-> <<>>]
    IN  IF text = None
        THEN [out |-> out0, visual_calls |-> vcalls, decoder_calls |-> <<>>]
        ELSE LET st1 == IF is_training /\ self_use_contrastive
                        THEN _forward(st0, text, None, TRUE, TRUE)
                        ELSE [st0 EXCEPT !.out = Put(st0.out, "text_features", None)]
                 st2 == _forward(st1, text, embs, FALSE, is_training)
             IN  [out |-> st2.out, visual_calls |-> vcalls,
                  decoder_calls |-> st2.decoder_calls]

ContrastiveParams ==
    {"text.ln_final.bias", "text.ln_final.weight", "visual.proj",
     "visual.ln_post.bias", "visual.ln_post.weight", "logit_scale"}

\* _use_contrastive on self = [use_contrastive, requires_grad]
_use_contrastive(self, used) ==
    [use_contrastive |-> used,
     requires_grad |-> IF ~used
                       THEN [p \in DOMAIN self.requires_grad |->
                               IF p \in ContrastiveParams THEN FALSE
                               ELSE self.requires_grad[p]]
                       ELSE self.requires_grad]

\* Attribute lookup on an object whose assigned attributes are attrs
AttributeError == [op |-> "AttributeError"]
GetAttr(attrs, name) == IF name \in DOMAIN attrs THEN attrs[name] ELSE AttributeError

\* vocab_size of the Hugging Face text tower named by hf_model_name
HFVocabSize == 5
VocabSizes == {3, 4}
Cfgs == [hf_model_name : {None, Str("roberta-base")}, vocab_size : VocabSizes]

\* __init__: the object it leaves behind. attrs0 are the attributes set when
\* vocab_size is computed, i.e. those of a bare nn.Module.
init(multimodal_cfg) ==
    LET attrs0 == [a \in {} |-> None]
        self_text == IF multimodal_cfg.hf_model_name # None
                     THEN GetAttr(attrs0, "text") ELSE None
    IN  IF self_text = AttributeError
        THEN [obj |-> "AttributeError", output_dim |-> 0,
              use_contrastive |-> FALSE,
              requires_grad |-> [p \in {} |-> TRUE]]
        ELSE [obj |-> "ready",
              output_dim |-> IF multimodal_cfg.hf_model_name # None
                             THEN HFVocabSize ELSE multimodal_cfg.vocab_size,
              use_contrastive |-> TRUE,
              requires_grad |-> [p \in ContrastiveParams |-> TRUE]]

\* No MaMMUT object exists yet.
NewMaMMUT ==
    /\ obj = "new"
    /\ output_dim = 0
    /\ use_contrastive = FALSE
    /\ requires_grad = [p \in {} |-> TRUE]
    /\ call = [op |-> "none"]
    /\ out = None
    /\ visual_calls = <<>>
    /\ decoder_calls = <<>>

\* No profiler run is in progress.
IdleProfiler ==
    /\ args = [model |-> <<>>, results_file |-> "", profiler |-> "torch"]
    /\ fvcore = FALSE
    /\ pc = "idle"
    /\ parsed_model = <<>>
    /\ idx = 1
    /\ results = <<>>
    /\ models_with_errors = <<>>
    /\ calls = <<>>
    /\ csv = Absent
    /\ stdout_errors = NotPrinted

Construct ==
    /\ obj = "new"
    /\ \E cfg \in Cfgs :
         LET self == init(cfg)
         IN  /\ obj' = self.obj
             /\ output_dim' = self.output_dim
             /\ use_contrastive' = self.use_contrastive
             /\ requires_grad' = self.requires_grad
             /\ call' = [op |-> "__init__", cfg |-> cfg]
    /\ UNCHANGED <<out, visual_calls, decoder_calls, profilerVars>>

UseContrastive ==
    /\ obj = "ready"
    /\ \E used \in BOOLEAN :
         LET self == _use_contrastive([use_contrastive |-> use_contrastive,
                                       requires_grad |-> requires_grad], used)
         IN  /\ use_contrastive' = self.use_contrastive
             /\ requires_grad' = self.requires_grad
             /\ call' = [op |-> "_use_contrastive", used |-> used]
    /\ out' = None
    /\ visual_calls' = <<>>
    /\ decoder_calls' = <<>>
    /\ UNCHANGED <<obj, output_dim, profilerVars>>

EncodeText ==
    /\ obj = "ready"
    /\ \E text \in Texts, image_embs \in {None, GivenEmbs},
          normalize \in BOOLEAN, output_logits \in BOOLEAN :
         /\ out' = encode_text(text, image_embs, normalize, output_logits)
         /\ decoder_calls' = <<DecoderCall(text, image_embs)>>
         /\ call' = [op |-> "encode_text", text |-> text, image_embs |-> image_embs,
                     normalize |-> normalize, output_logits |-> output_logits]
    /\ visual_calls' = <<>>
    /\ UNCHANGED <<obj, output_dim, use_contrastive, requires_grad, profilerVars>>

Forward ==
    /\ obj = "ready"
    /\ \E image \in {None, Image}, text \in {None} \cup Texts,
          image_latent \in {None, GivenLatent}, image_embs \in {None, GivenEmbs},
          is_training \in BOOLEAN :
         LET r == forward(use_contrastive, image, text, image_latent, image_embs,
                          is_training)
         IN  /\ out' = r.out
             /\ visual_calls' = r.visual_calls
             /\ decoder_calls' = r.decoder_calls
             /\ call' = [op |-> "forward", image |-> image, text |-> text,
                         image_latent |-> image_latent, image_embs |-> image_embs,
                         is_training |-> is_training]
    /\ UNCHANGED <<obj, output_dim, use_contrastive, requires_grad, profilerVars>>

NextMaMMUT == Construct \/ UseContrastive \/ EncodeText \/ Forward

\* A run of main(): no MaMMUT object is touched.
InitMain == InitProfiler /\ NewMaMMUT

\* The life of one MaMMUT object: no profiler run is in progress.
InitMaMMUT == NewMaMMUT /\ IdleProfiler

SpecProfiler == InitMain /\ [][NextProfiler]_vars

SpecMaMMUT == InitMaMMUT /\ [][NextMaMMUT]_vars

\* ------------------------------------------------------------------------
\* Properties of main()
\* ------------------------------------------------------------------------
Terminated == pc \in {"done", "IndexError", "Exception"}

\* names of the profile_model calls that raised / returned
RECURSIVE CallNames(_, _)
CallNames(cs, raised) ==
    IF cs = <<>> THEN <<>>
    ELSE IF Head(cs).raised = raised
         THEN <<Head(cs).model>> \o CallNames(Tail(cs), raised)
         ELSE CallNames(Tail(cs), raised)

RowModels(rows) == [i \in 1..Len(rows) |-> rows[i].model]

\* s is a rearrangement of t
IsPermutation(s, t) ==
    /\ Len(s) = Len(t)
    /\ \E f \in [1..Len(s) -> 1..Len(s)] :
         /\ \A i, j \in 1..Len(s) : f[i] = f[j] => i = j
         /\ \A i \in 1..Len(s) : s[i] = t[f[i]]

\* C1: an exception of profile_model is caught for that model only. At every
\* point of main() after parsing, profile_model has been called once for each
\* model before the loop position, in list order; the rows of results are
\* those of the calls that returned, so a failing model contributes no row;
\* and once the loop is left every model of the list has been called.
C1_PerModelCatch ==
    pc \notin {"idle", "parse"} =>
        /\ Len(calls) = idx - 1
        /\ Len(calls) <= Len(parsed_model)
        /\ \A i \in 1..Len(calls) : calls[i].model = parsed_model[i]
        /\ (pc # "loop" => Len(calls) = Len(parsed_model))
        /\ RowModels(results) = CallNames(calls, FALSE)

\* C1 witness: a finished run in which a model failed and a later one was
\* profiled and has its row.
C1_FailureThenSuccess ==
    /\ pc = "done"
    /\ \E i, j \in 1..Len(calls) :
         /\ i < j
         /\ calls[i].raised
         /\ ~calls[j].raised
         /\ \E k \in 1..Len(results) : results[k].model = calls[j].model

\* C2: every run of main() that ends and in which at least one model failed
\* has printed the 'Models with errors' list, holding exactly the failed
\* models, the runs where all models failed included.
C2_ErrorsReported ==
    (Terminated /\ CallNames(calls, TRUE) # <<>>) =>
        /\ stdout_errors.printed
        /\ stdout_errors.models = CallNames(calls, TRUE)

\* C4: a run of main() that ends with a non-empty --results-file has written
\* the file with one row per successfully profiled model, each row carrying
\* the parameter counts and the estimate of the chosen profiler; with an
\* empty --results-file no file is written.
C4_CsvWritten ==
    Terminated =>
        IF args.results_file # ""
        THEN /\ csv.written
             /\ Len(csv.rows) = Len(CallNames(calls, FALSE))
             /\ IsPermutation(RowModels(csv.rows), CallNames(calls, FALSE))
             /\ \A i \in 1..Len(csv.rows) :
                  /\ {"mparams", "image_mparams", "text_mparams"} \subseteq DOMAIN csv.rows[i]
                  /\ IF args.profiler = "torch"
                     THEN "gflops" \in DOMAIN csv.rows[i]
                     ELSE {"gmacs", "macts"} \subseteq DOMAIN csv.rows[i]
        ELSE ~csv.written

\* ------------------------------------------------------------------------
\* Properties of MaMMUT
\* ------------------------------------------------------------------------
IsNormalized(t) == t.op = "F.normalize"

\* C3 (as amended): encode_text returns an L2-normalized tensor exactly when
\* normalize is set and output_logits is not; with output_logits the token
\* logits are returned as they come from the decoder.
C3_NormalizedWhenRequested ==
    call.op = "encode_text" =>
        /\ IsNormalized(out) <=> (call.normalize /\ ~call.output_logits)
        /\ (call.normalize /\ ~call.output_logits) =>
              out.arg = Mean1(text_tower(call.text, call.image_embs).text_latent)
        /\ call.output_logits =>
              out = text_tower(call.text, call.image_embs).token_logits

\* C3 witness: a call with normalize=True, output_logits=False that returned
\* a normalized tensor.
C3_NormalizedCall ==
    /\ call.op = "encode_text"
    /\ call.normalize
    /\ ~call.output_logits
    /\ IsNormalized(out)

\* C3 as stated: with normalize=True the returned tensor is L2-normalized
\* whatever image_embs and output_logits are; with normalize=False it is not.
C3_Original ==
    call.op = "encode_text" => (IsNormalized(out) <=> call.normalize)

CaptionCall == call.op = "forward" /\ call.text # None

\* the decoder invocation that produced out['logits']
LogitsCall == decoder_calls[Len(decoder_calls)]

\* C5 (as amended): in a forward with a text of T >= 1 tokens, labels is the
\* text without its first token (T-1 positions); when is_training the decoder
\* is fed the text without its last token, so logits has T-1 positions, one
\* per label; when not is_training it is fed the whole text, so logits has T
\* positions, one more than labels.
C5_LabelShift ==
    (CaptionCall /\ Len(call.text.tokens) >= 1) =>
        LET tokens == call.text.tokens
            T == Len(tokens)
        IN  /\ out.labels.tokens = [i \in 1..(T - 1) |-> tokens[i + 1]]
            /\ out.logits = text_tower(LogitsCall.text_embs,
                                       LogitsCall.image_embs).token_logits
            /\ call.is_training =>
                 /\ LogitsCall.text_embs.tokens = [i \in 1..(T - 1) |-> tokens[i]]
                 /\ Len(LogitsCall.text_embs.tokens) = Len(out.labels.tokens)
            /\ ~call.is_training =>
                 /\ LogitsCall.text_embs.tokens = tokens
                 /\ Len(LogitsCall.text_embs.tokens) = Len(out.labels.tokens) + 1

\* C5 witness: a training forward on a text of two tokens whose decoder input
\* and labels both have one position.
C5_ShiftedTrainingCall ==
    /\ CaptionCall
    /\ call.is_training
    /\ Len(call.text.tokens) = 2
    /\ Len(out.labels.tokens) = 1
    /\ Len(LogitsCall.text_embs.tokens) = 1

\* C5 as stated: for is_training True and False alike the decoder is fed the
\* text without its last token and labels and logits have the same number of
\* positions.
C5_Original ==
    (CaptionCall /\ Len(call.text.tokens) >= 1) =>
        LET tokens == call.text.tokens
            T == Len(tokens)
        IN  /\ out.labels.tokens = [i \in 1..(T - 1) |-> tokens[i + 1]]
            /\ LogitsCall.text_embs.tokens = [i \in 1..(T - 1) |-> tokens[i]]
            /\ Len(LogitsCall.text_embs.tokens) = Len(out.labels.tokens)

\* C6: on a constructed model the contrastive-only parameters have
\* requires_grad False exactly when use_contrastive is False.
C6_GradFollowsUseContrastive ==
    obj = "ready" =>
        \A p \in ContrastiveParams : (requires_grad[p] = FALSE) <=> (use_contrastive = FALSE)

\* C7: __init__ completes for a config that names a Hugging Face model as for
\* one that does not, the decoder being built with the vocabulary size of the
\* HF config in the first case and of the config in the second.
C7_ConstructionCompletes ==
    call.op = "__init__" =>
        /\ obj = "ready"
        /\ output_dim = IF call.cfg.hf_model_name # None THEN HFVocabSize
                        ELSE call.cfg.vocab_size

\* C8: out of forward always holds logit_scale and image_features; without a
\* text it holds nothing else and the decoder is not invoked; with a text it
\* also holds labels, logits and text_features, the latter the normalized
\* text embedding (decoder invoked twice) exactly when is_training and
\* use_contrastive are both true, and None (decoder invoked once) otherwise.
C8_OutputKeys ==
    call.op = "forward" =>
        /\ {"logit_scale", "image_features"} \subseteq DOMAIN out
        /\ call.text = None =>
             /\ DOMAIN out = {"logit_scale", "image_features"}
             /\ decoder_calls = <<>>
        /\ call.text # None =>
             /\ DOMAIN out = {"logit_scale", "image_features", "text_features",
                              "labels", "logits"}
             /\ out.labels.op = "text"
             /\ out.logits.op = "text.token_logits"
             /\ IF call.is_training /\ use_contrastive
                THEN /\ out.text_features =
                          Normalize(Mean1(text_tower(call.text, None).text_latent))
                     /\ Len(decoder_calls) = 2
                ELSE /\ out.text_features = None
                     /\ Len(decoder_calls) = 1

\* C8 witnesses: an evaluation forward of a model that uses the contrastive
\* pass, with text_features None after one decoder invocation.
C8_EvalCall ==
    /\ CaptionCall
    /\ ~call.is_training
    /\ use_contrastive
    /\ out.text_features = None
    /\ Len(decoder_calls) = 1

\* C9: forward runs the vision tower exactly when an image is given and at
\* least one of image_latent, image_embs is missing; both supplied, they are
\* used as they are; one supplied together with an image, both are recomputed
\* from the image; nothing given, image_features is None and the decoder runs
\* with image_embs None.
C9_ImageEncodingReuse ==
    call.op = "forward" =>
        LET both == call.image_latent # None /\ call.image_embs # None
            one == (call.image_latent # None) # (call.image_embs # None)
        IN  /\ (visual_calls # <<>>) <=> (call.image # None /\ ~both)
            /\ Len(visual_calls) <= 1
            /\ both =>
                 /\ out.image_features = call.image_latent
                 /\ call.text # None =>
                      LogitsCall.image_embs = MatMul_map_viz2txt_kv(call.image_embs)
            /\ (one /\ call.image # None) =>
                 /\ visual_calls = <<call.image>>
                 /\ out.image_features = Normalize(visual(call.image).image_latent)
                 /\ call.text # None =>
                      LogitsCall.image_embs =
                          MatMul_map_viz2txt_kv(visual(call.image).image_embs)
            /\ (call.image = None /\ call.image_latent = None /\ call.image_embs = None) =>
                 /\ out.image_features = None
                 /\ call.text # None => LogitsCall.image_embs = None

\* C9 witness: a forward given an image and only its latent, which ran the
\* vision tower and returned the recomputed latent.
C9_RecomputedCall ==
    /\ CaptionCall
    /\ call.image # None
    /\ call.image_latent # None
    /\ call.image_embs = None
    /\ visual_calls = <<call.image>>
    /\ out.image_features # call.image_latent

====
